---- MODULE Spec2Model ----
(***************************************************************************)
(* Track finding of alpha-g (physics/src/reconstruction/track_finding.rs): *)
(* cluster_spacepoints, its Hough space accumulator, the connectivity      *)
(* filter largest_cluster and the greedy extractor best_cluster.           *)
(*                                                                         *)
(* Numbers.  A SpacePoint is [r, phi, z].  Lengths (r, z, max_distance)    *)
(* are integers in tenths of the length unit, so r = 10 is 1.0 and z = 1   *)
(* is 0.1.  phi is a number of quarter turns: phi = q stands for the f64   *)
(* q * FRAC_PI_2.  theta_bins is 0 or divides 4, so every sampled theta is *)
(* a whole number of quarter turns as well.  On these angles the f64 sine  *)
(* and cosine are 0, 1 or -1 plus a residue of a few 1e-17, and the sign   *)
(* of that residue decides is_sign_positive in get_bins.  A trigonometric  *)
(* value is therefore kept as [m, e]: the main part m and the residue e in *)
(* units of cos(FRAC_PI_2) = 6.123e-17, and arithmetic keeps the first     *)
(* order of e.  A ReciprocalLength is [m, e, den], the value (m + e*eps) / *)
(* den with den in tenths.  A point with r = 0 makes u and v the f64 0/0:  *)
(* NaN is the value with den = 0, and the sign bit of that NaN, which the  *)
(* build decides (set on x86-64, clear on aarch64), is nan_positive.       *)
(***************************************************************************)
EXTENDS Integers, Sequences, FiniteSets, TLC

VARIABLES
    nan_positive                \* the NaN of 0.0 / 0.0 has a clear sign bit

\* Longest input Vec<SpacePoint>.
MaxLen == 3

\* The values of max_num_clusters, min_num_points_per_cluster, rho_bins,
\* theta_bins and max_distance a call is given.
MaxNumClustersSet == {0, 1, 2}
MinNumPointsSet == {0, 1, 2}
RhoBinsSet == {1, 2}
ThetaBinsSet == {0, 1, 2, 4}
MaxDistanceSet == {10}

Pt(r, q, z) == [r |-> r, phi |-> q, z |-> z]

\* The space points inputs are drawn from: three points on the radial line
\* phi = 0, and a quarter turn away three points of one radius, the second
\* 0.1 and the third 100 above the first.
Points ==
    { Pt(10, 0, 0), Pt(20, 0, 0), Pt(30, 0, 0),
      Pt(10, 1, 0), Pt(10, 1, 1), Pt(10, 1, 1000) }

\* Two points 100 apart on one (r, phi) and a point of another radius: with
\* one more point than MaxLen they fill two bins of equal size, one whose
\* points are apart and one whose points are together.
Stacked == { Pt(10, 1, 0), Pt(10, 1, 1000), Pt(20, 0, 0) }

Inputs ==
    UNION { [1..n -> Points] : n \in 0..MaxLen } \cup [1..(MaxLen + 1) -> Stacked]

------------------------------------------------------------------------------
\* f64 cosine and sine of q quarter turns (q in 0..4), main part and residue.
CosQ(q) ==
    CASE q = 0 -> [m |-> 1, e |-> 0]
      [] q = 1 -> [m |-> 0, e |-> 1]
      [] q = 2 -> [m |-> -1, e |-> 0]
      [] q = 3 -> [m |-> 0, e |-> -3]
      [] q = 4 -> [m |-> 1, e |-> 0]

SinQ(q) ==
    CASE q = 0 -> [m |-> 0, e |-> 0]
      [] q = 1 -> [m |-> 1, e |-> 0]
      [] q = 2 -> [m |-> 0, e |-> 2]
      [] q = 3 -> [m |-> -1, e |-> 0]
      [] q = 4 -> [m |-> 0, e |-> -4]

\* The f64 NaN.
NaN == [m |-> 0, e |-> 0, den |-> 0]

IsNaN(x) == x.den = 0

\* Conformal transformation: u = r cos(phi) / r^2, v = r sin(phi) / r^2;
\* with r = 0 both are 0 / 0.
u_v(point) ==
    LET c == CosQ(point.phi)
        s == SinQ(point.phi)
    IN  IF point.r = 0 THEN << NaN, NaN >>
        ELSE << [m |-> c.m, e |-> c.e, den |-> point.r],
                [m |-> s.m, e |-> s.e, den |-> point.r] >>

ISqrt(n) == CHOOSE k \in 0..n : k * k = n

\* sqrt(u^2 + v^2); the squared residues vanish in f64.
Norm(point) ==
    LET uv == u_v(point)
    IN  IF IsNaN(uv[1]) \/ IsNaN(uv[2]) THEN NaN
        ELSE [m |-> ISqrt(uv[1].m * uv[1].m + uv[2].m * uv[2].m), e |-> 0,
              den |-> point.r]

\* ReciprocalLength::max on values with no residue; f64::max returns the
\* other operand when one is NaN.
RLMax(a, b) ==
    IF IsNaN(a) THEN b
    ELSE IF IsNaN(b) THEN a
    ELSE IF b.m * a.den > a.m * b.den THEN b ELSE a

\* rho_max before it is computed, and the None of reduce().
NoRhoMax == [m |-> 0, e |-> 0, den |-> 1]

\* sp.iter().map(norm).reduce(max).
RECURSIVE RhoMaxFrom(_, _, _)
RhoMaxFrom(sp, i, best) ==
    IF i > Len(sp) THEN best
    ELSE RhoMaxFrom(sp, i + 1, RLMax(best, Norm(sp[i])))

RhoMaxOf(sp) == IF sp = <<>> THEN NoRhoMax ELSE RhoMaxFrom(sp, 2, Norm(sp[1]))

\* f64::is_sign_positive; on NaN it reads the sign bit.
IsSignPositive(x) ==
    IF IsNaN(x) THEN nan_positive ELSE x.m > 0 \/ (x.m = 0 /\ x.e >= 0)

\* The quarter turns of theta = theta_bin * (FULL_TURN / theta_bins).
QuarterTurns(theta_bin, theta_bins) == (4 * theta_bin) \div theta_bins

\* rho at sample theta_bin: u for the first bin (theta = 0), otherwise
\* u * cos(theta) + v * sin(theta).
RhoAt(point, theta_bin, theta_bins) ==
    LET uv == u_v(point)
        u == uv[1]
        v == uv[2]
        c == CosQ(QuarterTurns(theta_bin, theta_bins))
        s == SinQ(QuarterTurns(theta_bin, theta_bins))
    IN  IF theta_bin = 0 THEN u
        ELSE IF IsNaN(u) \/ IsNaN(v) THEN NaN
        ELSE [m |-> u.m * c.m + v.m * s.m,
              e |-> u.m * c.e + u.e * c.m + v.m * s.e + v.e * s.m,
              den |-> point.r]

\* (rho / delta_rho).floor() as u32, with delta_rho = rho_max / rho_bins: the
\* cast saturates a negative ratio to 0 and turns NaN into 0, and a residue
\* floors to 0.
RhoBin(rho, rho_max, rho_bins) ==
    IF IsNaN(rho) \/ IsNaN(rho_max) THEN 0
    ELSE IF rho.m > 0
    THEN (rho.m * rho_bins * rho_max.den) \div (rho.den * rho_max.m)
    ELSE 0

Min2(a, b) == IF a < b THEN a ELSE b
Max2(a, b) == IF a < b THEN b ELSE a

\* A step that votes for the bins of its two samples only.
StepBinsEndpoints(point, theta_bin, rho_max, rho_bins, theta_bins) ==
    LET prev_rho == RhoAt(point, theta_bin - 1, theta_bins)
        rho == RhoAt(point, theta_bin, theta_bins)
        prev_rho_bin == RhoBin(prev_rho, rho_max, rho_bins)
        rho_bin == RhoBin(rho, rho_max, rho_bins)
    IN  IF IsSignPositive(rho) \/ IsSignPositive(prev_rho)
        THEN { <<theta_bin - 1, prev_rho_bin>>, <<theta_bin - 1, rho_bin>> }
        ELSE {}

\* The skip rule with "and" for "or".
StepBinsBothPositive(point, theta_bin, rho_max, rho_bins, theta_bins) ==
    LET prev_rho == RhoAt(point, theta_bin - 1, theta_bins)
        rho == RhoAt(point, theta_bin, theta_bins)
        prev_rho_bin == RhoBin(prev_rho, rho_max, rho_bins)
        rho_bin == RhoBin(rho, rho_max, rho_bins)
    IN  IF IsSignPositive(rho) /\ IsSignPositive(prev_rho)
        THEN { <<theta_bin - 1, bin>> :
                 bin \in Min2(prev_rho_bin, rho_bin)..Max2(prev_rho_bin, rho_bin) }
        ELSE {}

\* The bins one sample step votes for.
StepBins(point, theta_bin, rho_max, rho_bins, theta_bins) ==
    LET prev_rho == RhoAt(point, theta_bin - 1, theta_bins)
        rho == RhoAt(point, theta_bin, theta_bins)
        prev_rho_bin == RhoBin(prev_rho, rho_max, rho_bins)
        rho_bin == RhoBin(rho, rho_max, rho_bins)
    IN  IF IsSignPositive(rho) \/ IsSignPositive(prev_rho)
        THEN { <<theta_bin - 1, bin>> :
                 bin \in Min2(prev_rho_bin, rho_bin)..Max2(prev_rho_bin, rho_bin) }
        ELSE {}

\* HoughSpaceAccumulator::get_bins.
get_bins(point, rho_max, rho_bins, theta_bins) ==
    UNION { StepBins(point, theta_bin, rho_max, rho_bins, theta_bins) :
              theta_bin \in 1..theta_bins }

------------------------------------------------------------------------------
\* A swap_remove that forgets the swap: the last element goes.
swap_remove_pop(v, index) == SubSeq(v, 1, Len(v) - 1)

\* Vec::swap_remove(index), 1-based.
swap_remove(v, index) ==
    [i \in 1..(Len(v) - 1) |-> IF i = index THEN v[Len(v)] ELSE v[i]]

\* iter().position(|p| p == point): the first index, 0 for None.
Position(v, point) ==
    IF \E i \in 1..Len(v) : v[i] = point
    THEN CHOOSE i \in 1..Len(v) : v[i] = point /\ \A j \in 1..(i - 1) : v[j] # point
    ELSE 0

\* An add that pushes the point twice.
AddTwice(acc, point, rho_max, rho_bins, theta_bins) ==
    LET bins == get_bins(point, rho_max, rho_bins, theta_bins)
    IN  [bin \in (DOMAIN acc) \cup bins |->
           IF bin \in bins
           THEN (IF bin \in DOMAIN acc THEN acc[bin] ELSE <<>>) \o <<point, point>>
           ELSE acc[bin]]

\* HoughSpaceAccumulator::add on the bin map.
add(acc, point, rho_max, rho_bins, theta_bins) ==
    LET bins == get_bins(point, rho_max, rho_bins, theta_bins)
    IN  [bin \in (DOMAIN acc) \cup bins |->
           IF bin \in bins
           THEN Append(IF bin \in DOMAIN acc THEN acc[bin] ELSE <<>>, point)
           ELSE acc[bin]]

\* A remove that takes every occurrence of the point out of its bins.
RemoveEvery(acc, point, rho_max, rho_bins, theta_bins) ==
    LET bins == get_bins(point, rho_max, rho_bins, theta_bins)
    IN  [bin \in DOMAIN acc |->
           IF bin \in bins
           THEN SelectSeq(acc[bin], LAMBDA p : p # point)
           ELSE acc[bin]]

\* A remove that leaves the point in its bins.
RemoveNothing(acc, point, rho_max, rho_bins, theta_bins) == acc

\* HoughSpaceAccumulator::remove on the bin map.
remove(acc, point, rho_max, rho_bins, theta_bins) ==
    LET bins == get_bins(point, rho_max, rho_bins, theta_bins)
    IN  [bin \in DOMAIN acc |->
           IF bin \in bins /\ Position(acc[bin], point) # 0
           THEN swap_remove(acc[bin], Position(acc[bin], point))
           ELSE acc[bin]]

RECURSIVE AddAll(_, _, _, _, _, _)
AddAll(acc, points, i, rho_max, rho_bins, theta_bins) ==
    IF i > Len(points) THEN acc
    ELSE AddAll(add(acc, points[i], rho_max, rho_bins, theta_bins), points,
                i + 1, rho_max, rho_bins, theta_bins)

RECURSIVE RemoveAll(_, _, _, _, _, _)
RemoveAll(acc, points, i, rho_max, rho_bins, theta_bins) ==
    IF i > Len(points) THEN acc
    ELSE RemoveAll(remove(acc, points[i], rho_max, rho_bins, theta_bins),
                   points, i + 1, rho_max, rho_bins, theta_bins)

\* The empty HashMap.
EmptyMap == [bin \in {} |-> <<>>]

\* The iteration order of the bin map.  HashMap::new() (line 47) gives the
\* map of every call a RandomState of its own, so values() meets the keys in
\* a hash order: any order of the keys, another one in the next call.  Within
\* one call the order does not change once the map is built: remove empties
\* Vecs and leaves their keys, and every add after the build finds its keys.
\* order is what a call has shown of the iteration order of its map: the
\* pairs <<a, b>> of keys with a met before b, kept transitive.
NoOrder == {}

\* The keys met no later than one of bins, and those met no earlier than bin.
Before(order, bins) == bins \cup { pair[1] : pair \in { p \in order : p[2] \in bins } }

After(order, bin) == {bin} \cup { pair[2] : pair \in { p \in order : p[1] = bin } }

\* max_by_key returned bin: of the fullest bins it was met last.
Met(order, maximal, bin) ==
    order \cup (Before(order, maximal \ {bin}) \X After(order, bin))

MaximalBins(acc) ==
    { bin \in DOMAIN acc : \A other \in DOMAIN acc : Len(acc[other]) <= Len(acc[bin]) }

\* A choice among all bins, the fullest or not.
AnyBin(acc, order) == DOMAIN acc

\* The bins values().max_by_key(|v| v.len()) can return: a fullest bin that
\* the iteration can meet last, none of the fullest being known to come
\* after it.
LastMaximal(acc, order) ==
    LET maximal == MaximalBins(acc)
    IN  { bin \in maximal : \A other \in maximal : <<bin, other>> \notin order }

\* HoughSpaceAccumulator::most_popular: every Vec it can return.
most_popular(acc, order) ==
    IF DOMAIN acc = {} THEN { <<>> }
    ELSE { acc[bin] : bin \in LastMaximal(acc, order) }

\* The iteration order once most_popular has returned popular.
Shown(acc, order, popular) ==
    IF DOMAIN acc = {} THEN { order }
    ELSE { Met(order, MaximalBins(acc), bin) :
             bin \in { b \in LastMaximal(acc, order) : acc[b] = popular } }

------------------------------------------------------------------------------
\* distance(a, b) <= max_distance, on squares.  x = r cos(phi) and
\* y = r sin(phi); the residues of the sine and cosine do not move the
\* comparison on these points.
Sq(x) == x * x

Distance2(a, b) ==
    Sq(a.r * CosQ(a.phi).m - b.r * CosQ(b.phi).m)
    + Sq(a.r * SinQ(a.phi).m - b.r * SinQ(b.phi).m)
    + Sq(a.z - b.z)

\* The comparison on the distance in the x-y plane, z left out.
WithinNoZ(a, b, max_distance) ==
    max_distance >= 0 /\ Distance2(a, b) - Sq(a.z - b.z) <= Sq(max_distance)

Within(a, b, max_distance) ==
    max_distance >= 0 /\ Distance2(a, b) <= Sq(max_distance)

\* Growth that only looks at the neighbours of the first point.
RECURSIVE GrowFirstOnly(_, _, _, _, _)
GrowFirstOnly(cluster, points, i, j, max_distance) ==
    IF i > 1 THEN <<cluster, points>>
    ELSE IF j > Len(points) THEN GrowFirstOnly(cluster, points, i + 1, 1, max_distance)
    ELSE IF Within(cluster[i], points[j], max_distance)
         THEN GrowFirstOnly(Append(cluster, points[j]), swap_remove(points, j),
                            i, j, max_distance)
         ELSE GrowFirstOnly(cluster, points, i, j + 1, max_distance)

\* The two inner loops of largest_cluster: grow cluster from points.
RECURSIVE Grow(_, _, _, _, _)
Grow(cluster, points, i, j, max_distance) ==
    IF i > Len(cluster) THEN <<cluster, points>>
    ELSE IF j > Len(points) THEN Grow(cluster, points, i + 1, 1, max_distance)
    ELSE IF Within(cluster[i], points[j], max_distance)
         THEN Grow(Append(cluster, points[j]), swap_remove(points, j), i, j,
                   max_distance)
         ELSE Grow(cluster, points, i, j + 1, max_distance)

\* The outer loop: the clusters in the order they are pushed.
RECURSIVE Components(_, _, _)
Components(points, clusters, max_distance) ==
    IF points = <<>> THEN clusters
    ELSE LET grown == Grow(<<points[Len(points)]>>,
                           SubSeq(points, 1, Len(points) - 1), 1, 1, max_distance)
         IN  Components(grown[2], Append(clusters, grown[1]), max_distance)

\* sort_by_key(len) is stable, so pop() takes the longest cluster pushed last.
largest_cluster(points, max_distance) ==
    LET clusters == Components(points, <<>>, max_distance)
    IN  IF clusters = <<>> THEN <<>>
        ELSE clusters[CHOOSE i \in 1..Len(clusters) :
                        /\ \A j \in 1..Len(clusters) :
                             Len(clusters[j]) <= Len(clusters[i])
                        /\ \A j \in (i + 1)..Len(clusters) :
                             Len(clusters[j]) < Len(clusters[i])]

------------------------------------------------------------------------------
VARIABLES
    input,                      \* the Vec the call was given
    sp,                         \* the working Vec, the remainder on return
    max_num_clusters,
    min_num_points_per_cluster,
    rho_bins,
    theta_bins,
    max_distance,
    order,                      \* iteration order of the bin map, as shown
    rho_max,                    \* accumulator.rho_max
    built,                      \* the accumulator has been constructed
    accumulator,                \* accumulator.accumulator
    prev_best,                  \* best_cluster's prev_best
    entry_acc,                  \* the bin map best_cluster was entered with
    commits,                    \* candidates best_cluster has committed
    clusters,
    candidates,                 \* what each call of best_cluster returned
    calls,                      \* calls of best_cluster so far
    run,                        \* 1, or 2 when the call is repeated
    first,                      \* the result of run 1, once it is repeated
    pc

config == <<input, max_num_clusters, min_num_points_per_cluster, rho_bins,
            theta_bins, max_distance, nan_positive>>

vars == <<input, sp, max_num_clusters, min_num_points_per_cluster, rho_bins,
          theta_bins, max_distance, order, nan_positive, rho_max, built,
          accumulator, prev_best, entry_acc, commits, clusters, candidates,
          calls, run, first, pc>>

NoResult ==
    [clusters |-> <<>>, remainder |-> <<>>, pc |-> "none", order |-> NoOrder]

Entry ==
    /\ sp = input
    /\ rho_max = NoRhoMax
    /\ built = FALSE
    /\ accumulator = EmptyMap
    /\ order = NoOrder
    /\ prev_best = <<>>
    /\ entry_acc = EmptyMap
    /\ commits = 0
    /\ clusters = <<>>
    /\ candidates = <<>>
    /\ calls = 0
    /\ pc = "start"

InitConfig ==
    /\ input \in Inputs
    /\ max_num_clusters \in MaxNumClustersSet
    /\ min_num_points_per_cluster \in MinNumPointsSet
    /\ rho_bins \in RhoBinsSet
    /\ theta_bins \in ThetaBinsSet
    /\ max_distance \in MaxDistanceSet

Init ==
    /\ InitConfig
    /\ nan_positive = FALSE
    /\ run = 1
    /\ first = NoResult
    /\ Entry

\* The early return left out.
EmptyInputNever == FALSE

\* Lines 28-41: let Some(rho_max) = ... else return.
EmptyInput == RhoMaxOf(sp) = NoRhoMax

\* Lines 28-51: the early return, or rho_max and the accumulator.
Start ==
    /\ pc = "start"
    /\ IF EmptyInput
       THEN /\ pc' = "done"
            /\ UNCHANGED <<rho_max, built, accumulator>>
       ELSE /\ rho_max' = RhoMaxOf(sp)
            /\ built' = TRUE
            /\ accumulator' = AddAll(EmptyMap, sp, 1, RhoMaxOf(sp), rho_bins,
                                     theta_bins)
            /\ pc' = "loop"
    /\ UNCHANGED <<config, sp, order, prev_best, entry_acc, commits, clusters,
                   candidates, calls, run, first>>

\* The loop condition off by one.
LoopCondLe == Len(clusters) <= max_num_clusters

\* Line 83: while clusters.len() < max_num_clusters.
LoopCond == Len(clusters) < max_num_clusters

\* Lines 83-84 and 61: enter best_cluster, or leave the loop.
LoopHead ==
    /\ pc = "loop"
    /\ IF LoopCond
       THEN /\ pc' = "best"
            /\ prev_best' = <<>>
            /\ entry_acc' = accumulator
            /\ commits' = 0
            /\ calls' = calls + 1
       ELSE /\ pc' = "rem"
            /\ UNCHANGED <<prev_best, entry_acc, commits, calls>>
    /\ UNCHANGED <<config, sp, rho_max, built, accumulator, order, clusters,
                   candidates, run, first>>

\* The test with < for <=: a candidate of equal size is committed.
NotBetterStrict(best, prev) == Len(best) < Len(prev)

\* Line 65: the candidate does not beat prev_best.
NotBetter(best, prev) == Len(best) <= Len(prev)

\* A commit that does not put the previous best back.
CommitNoRestore(acc, best, prev) ==
    RemoveAll(acc, best, 1, rho_max, rho_bins, theta_bins)

\* Lines 69-74: commit best, restore prev.
Commit(acc, best, prev) ==
    AddAll(RemoveAll(acc, best, 1, rho_max, rho_bins, theta_bins), prev, 1,
           rho_max, rho_bins, theta_bins)

\* Lines 63-77: one iteration of the loop of best_cluster.
BestIter ==
    /\ pc = "best"
    /\ \E popular \in most_popular(accumulator, order) :
         LET best == largest_cluster(popular, max_distance)
         IN  /\ order' \in Shown(accumulator, order, popular)
             /\ IF NotBetter(best, prev_best)
                THEN /\ pc' = "ret"
                     /\ UNCHANGED <<accumulator, prev_best, commits>>
                ELSE /\ accumulator' = Commit(accumulator, best, prev_best)
                     /\ prev_best' = best
                     /\ commits' = commits + 1
                     /\ pc' = "best"
    /\ UNCHANGED <<config, sp, rho_max, built, entry_acc, clusters, candidates,
                   calls, run, first>>

\* The size test off by one.
TooSmallOffByOne(cluster) == Len(cluster) + 1 < min_num_points_per_cluster

\* Line 85: the candidate is too small to be kept.
TooSmall(cluster) == Len(cluster) < min_num_points_per_cluster

\* continue for break.
AfterBreakContinue == "loop"

\* Line 86: break leaves the loop.
AfterBreak == "rem"

\* Lines 79 and 84-89: best_cluster returns, the candidate is kept or ends
\* the extraction.
Return ==
    /\ pc = "ret"
    /\ candidates' = Append(candidates, prev_best)
    /\ IF TooSmall(prev_best)
       THEN /\ pc' = AfterBreak
            /\ UNCHANGED clusters
       ELSE /\ clusters' = Append(clusters, prev_best)
            /\ pc' = "loop"
    /\ UNCHANGED <<config, sp, rho_max, built, accumulator, order, prev_best,
                   entry_acc, commits, calls, run, first>>

\* clusters.iter().flatten()
RECURSIVE Flatten(_, _)
Flatten(cs, i) == IF i > Len(cs) THEN <<>> ELSE cs[i] \o Flatten(cs, i + 1)

\* Lines 95-96 for one point: ok turns FALSE when position() gives None and
\* unwrap() panics.
RemoveOne(st, point) ==
    IF ~st.ok \/ Position(st.v, point) = 0 THEN [ok |-> FALSE, v |-> st.v]
    ELSE [ok |-> TRUE, v |-> swap_remove(st.v, Position(st.v, point))]

RECURSIVE RemoveEach(_, _, _)
RemoveEach(st, points, i) ==
    IF i > Len(points) THEN st
    ELSE RemoveEach(RemoveOne(st, points[i]), points, i + 1)

\* Lines 92-102: the remainder, and the return.
Remainder ==
    /\ pc = "rem"
    /\ LET left == RemoveEach([ok |-> TRUE, v |-> sp], Flatten(clusters, 1), 1)
       IN  IF ~left.ok
           THEN /\ pc' = "panic"
                /\ UNCHANGED sp
           ELSE /\ sp' = left.v
                /\ pc' = "done"
    /\ UNCHANGED <<config, rho_max, built, accumulator, order, prev_best,
                   entry_acc, commits, clusters, candidates, calls, run, first>>

Next == Start \/ LoopHead \/ BestIter \/ Return \/ Remainder

Spec == Init /\ [][Next]_vars

\* The call runs on one thread with nothing to wait for: while it has not
\* returned or panicked its next step is taken.  Every step of Next moves pc
\* or changes commits (a commit counts one up, entering best_cluster sets it
\* to 0), and a step of Next exists in every state that is Running, so weak
\* fairness of Advance is weak fairness of Next.  Inputs of up to MaxLen + 1
\* points of Stacked.
Running == pc \notin {"done", "panic"}

Advance ==
    /\ Running
    /\ pc' \in {"start", "loop", "best", "ret", "rem", "done", "panic"}
    /\ commits' \in {0, commits, commits + 1}
    /\ <<pc, commits>>' # <<pc, commits>>

InitLive ==
    /\ input \in UNION { [1..n -> Stacked] : n \in 0..(MaxLen + 1) }
    /\ max_num_clusters \in MaxNumClustersSet \cup {3}
    /\ min_num_points_per_cluster \in MinNumPointsSet
    /\ rho_bins \in {2}
    /\ theta_bins \in {1, 4}
    /\ max_distance \in MaxDistanceSet
    /\ nan_positive = FALSE
    /\ run = 1
    /\ first = NoResult
    /\ Entry

SpecLive == InitLive /\ [][Next]_vars /\ WF_<<pc, commits>>(Advance)

------------------------------------------------------------------------------
\* The same call made twice: run 1 returns, its result and what it showed of
\* the iteration order of its map are kept in first, and run 2 starts from
\* the same input and configuration with a map of its own, whose iteration
\* order is another one.
InitDet ==
    /\ input \in UNION { [1..n -> Points] : n \in 0..(MaxLen - 1) }
                 \cup [1..MaxLen -> Stacked]
    /\ max_num_clusters \in {1, 2}
    /\ min_num_points_per_cluster \in {1}
    /\ rho_bins \in RhoBinsSet
    /\ theta_bins \in {1, 4}
    /\ max_distance \in MaxDistanceSet
    /\ nan_positive = FALSE
    /\ run = 1
    /\ first = NoResult
    /\ Entry

Rerun ==
    /\ pc = "done"
    /\ run = 1
    /\ run' = 2
    /\ first' = [clusters |-> clusters, remainder |-> sp, pc |-> pc,
                 order |-> order]
    /\ sp' = input
    /\ rho_max' = NoRhoMax
    /\ built' = FALSE
    /\ accumulator' = EmptyMap
    /\ order' = NoOrder
    /\ prev_best' = <<>>
    /\ entry_acc' = EmptyMap
    /\ commits' = 0
    /\ clusters' = <<>>
    /\ candidates' = <<>>
    /\ calls' = 0
    /\ pc' = "start"
    /\ UNCHANGED config

NextDet == Next \/ Rerun

SpecDet == InitDet /\ [][NextDet]_vars

------------------------------------------------------------------------------
\* Calls whose input holds a point with r = 0, alone or next to points with
\* a radius, on a build of either NaN sign.
ZeroPoints == { Pt(0, 0, 0), Pt(0, 1, 5) }

ZeroInputs ==
    { v \in UNION { [1..n -> ZeroPoints \cup {Pt(10, 0, 0), Pt(10, 1, 0)}] :
                      n \in 1..MaxLen } :
        \E i \in 1..Len(v) : v[i].r = 0 }

InitZero ==
    /\ input \in ZeroInputs
    /\ max_num_clusters \in {1, 2}
    /\ min_num_points_per_cluster \in {1, 2}
    /\ rho_bins \in RhoBinsSet
    /\ theta_bins \in {1, 4}
    /\ max_distance \in MaxDistanceSet
    /\ nan_positive \in BOOLEAN
    /\ run = 1
    /\ first = NoResult
    /\ Entry

SpecZero == InitZero /\ [][Next]_vars

------------------------------------------------------------------------------
\* Calls on three points more than MaxLen, drawn from points of one
\* (r, phi) that are 100 apart from each other and a point of another
\* radius: a bin can then hold four points that are pairwise apart while
\* another bin holds two that are together.
Apart == { Pt(10, 1, 0), Pt(10, 1, 1000), Pt(10, 1, 2000), Pt(20, 0, 0) }

GreedyInputs == { v \o << Pt(10, 1, 3000) >> : v \in [1..(MaxLen + 2) -> Apart] }

InitGreedy ==
    /\ input \in GreedyInputs
    /\ max_num_clusters \in {1, 2}
    /\ min_num_points_per_cluster \in {1, 2}
    /\ rho_bins \in RhoBinsSet
    /\ theta_bins \in {1, 4}
    /\ max_distance \in MaxDistanceSet
    /\ nan_positive = FALSE
    /\ run = 1
    /\ first = NoResult
    /\ Entry

SpecGreedy == InitGreedy /\ [][Next]_vars

------------------------------------------------------------------------------
\* Calls on one point more than MaxLen, drawn from three points in a row on
\* one radial line, each 1.0 from the next, and a point 100 above the last.
Chain == { Pt(10, 0, 0), Pt(20, 0, 0), Pt(30, 0, 0), Pt(30, 0, 1000) }

InitFilter ==
    /\ input \in [1..(MaxLen + 1) -> Chain]
    /\ max_num_clusters \in {1, 2}
    /\ min_num_points_per_cluster \in {1, 2}
    /\ rho_bins \in RhoBinsSet
    /\ theta_bins \in {1, 4}
    /\ max_distance \in MaxDistanceSet
    /\ nan_positive = FALSE
    /\ run = 1
    /\ first = NoResult
    /\ Entry

SpecFilter == InitFilter /\ [][Next]_vars

------------------------------------------------------------------------------
\* Calls on points of every quarter of the circle: the points with
\* cos(phi) < 0 have a negative rho at the first sample.  The inputs of
\* MaxLen + 1 points of Stacked are there for best_cluster to commit twice.
Around ==
    { Pt(10, 0, 0), Pt(20, 0, 0), Pt(10, 1, 0), Pt(10, 2, 0), Pt(20, 2, 0),
      Pt(20, 3, 0) }

InitVotes ==
    /\ input \in UNION { [1..n -> Around] : n \in 1..MaxLen }
                 \cup [1..(MaxLen + 1) -> Stacked]
    /\ max_num_clusters \in {1, 2}
    /\ min_num_points_per_cluster \in {1, 2}
    /\ rho_bins \in RhoBinsSet
    /\ theta_bins \in ThetaBinsSet
    /\ max_distance \in MaxDistanceSet
    /\ nan_positive = FALSE
    /\ run = 1
    /\ first = NoResult
    /\ Entry

SpecVotes == InitVotes /\ [][Next]_vars

------------------------------------------------------------------------------
\* Occurrences of point in a Vec.
Count(point, v) == Cardinality({ i \in 1..Len(v) : v[i] = point })

SameBag(v, w) == \A point \in Points : Count(point, v) = Count(point, w)

HasDuplicate(v) == \E i, j \in 1..Len(v) : i # j /\ v[i] = v[j]

\* C1 (partition law): in the returned result the points of all clusters
\* together with the remainder are the input points, each as often as the
\* input holds it.
C1_Partition ==
    pc = "done" =>
        \A point \in Points :
            Count(point, Flatten(clusters, 1)) + Count(point, sp)
                = Count(point, input)

\* A call on an input with a duplicate point has returned two clusters and
\* a non-empty remainder.
C1_Witness ==
    /\ pc = "done"
    /\ HasDuplicate(input)
    /\ Len(clusters) = 2
    /\ sp # <<>>

\* C2 (cluster count): there are never more than max_num_clusters clusters,
\* and with max_num_clusters = 0 the result has no cluster and the whole
\* input as remainder.
C2_AtMostMaxClusters ==
    /\ Len(clusters) <= max_num_clusters
    /\ (pc = "done" /\ max_num_clusters = 0) => (clusters = <<>> /\ sp = input)

\* The loop stopped at max_num_clusters clusters with points left over.
C2_Witness ==
    /\ pc = "done"
    /\ max_num_clusters = 2
    /\ Len(clusters) = max_num_clusters
    /\ sp # <<>>

\* C3 (cluster size): every cluster of the result has at least
\* min_num_points_per_cluster points.
C3_AtLeastMinPoints ==
    \A i \in 1..Len(clusters) :
        Len(clusters[i]) >= min_num_points_per_cluster

\* A cluster of exactly the minimum size was kept and a smaller candidate
\* was turned down.
C3_Witness ==
    /\ pc = "done"
    /\ min_num_points_per_cluster = 2
    /\ \E i \in 1..Len(clusters) : Len(clusters[i]) = 2
    /\ \E i \in 1..Len(candidates) : Len(candidates[i]) = 1

\* C4 (non-empty clusters): no cluster of a result is empty, whatever
\* min_num_points_per_cluster and max_num_clusters are.
C4_NonEmptyClusters ==
    \A i \in 1..Len(clusters) : clusters[i] # <<>>

\* C5 (determinism): two calls with the same input and the same configuration
\* return the same clusters, in the same order with the same points, and the
\* same remainder.  The tie-break among equally full bins is the one the
\* code has: the bin the iteration of the call's own map meets last.
C5_Deterministic ==
    (run = 2 /\ pc = "done") =>
        (clusters = first.clusters /\ sp = first.remainder)

\* C6 (empty input): a call with no points returns no cluster and an empty
\* remainder, having built no accumulator and never called best_cluster.
C6_EmptyInput ==
    (input = <<>> /\ pc = "done") =>
        (clusters = <<>> /\ sp = <<>> /\ ~built /\ calls = 0
         /\ accumulator = EmptyMap)

\* A call with no points and room for clusters has returned.
C6_Witness ==
    /\ input = <<>>
    /\ pc = "done"
    /\ max_num_clusters > 0
    /\ min_num_points_per_cluster = 0

IsPermutation(v, a, b, c) ==
    /\ Len(v) = 3
    /\ \E i, j, k \in 1..3 :
         {i, j, k} = {1, 2, 3} /\ v[i] = a /\ v[j] = b /\ v[k] = c

\* At least 99.9 away (a point 100 from one of two points 0.1 apart).
Far(a, b) == Distance2(a, b) >= Sq(999)

\* The input is the three points a and b, 0.1 apart, and c, 100 away from
\* both (a, b, c are input[i], input[j], input[k]); the three vote for a
\* common bin; max_distance = 1.0, max_num_clusters >= 1 and
\* min_num_points_per_cluster <= 2.
C7_Scenario(i, j, k) ==
    LET a == input[i]
        b == input[j]
        c == input[k]
    IN
    /\ {i, j, k} = {1, 2, 3}
    /\ Distance2(a, b) = 1
    /\ Far(c, a)
    /\ Far(c, b)
    /\ get_bins(a, RhoMaxOf(input), rho_bins, theta_bins)
         \cap get_bins(b, RhoMaxOf(input), rho_bins, theta_bins)
         \cap get_bins(c, RhoMaxOf(input), rho_bins, theta_bins) # {}
    /\ max_distance = 10
    /\ max_num_clusters >= 1
    /\ min_num_points_per_cluster <= 2

OnlyInRemainder(c) == Count(c, sp) = 1 /\ Count(c, Flatten(clusters, 1)) = 0

\* C7 as claimed (distance-gated split): in the scenario some cluster holds
\* exactly the two close points and the far point is in the remainder and
\* in no cluster.
C7_SplitAsClaimed ==
    (pc = "done" /\ Len(input) = 3) =>
    \A i, j, k \in 1..3 :
        C7_Scenario(i, j, k) =>
            /\ \E n \in 1..Len(clusters) :
                 SameBag(clusters[n], <<input[i], input[j]>>)
            /\ OnlyInRemainder(input[k])

\* C7 as amended: in the scenario the first cluster holds exactly the two
\* close points; the far point is in the remainder and in no cluster when
\* min_num_points_per_cluster = 2 or max_num_clusters = 1, and otherwise it
\* is returned as a second cluster of its own.
C7_SplitAmended ==
    (pc = "done" /\ Len(input) = 3) =>
    \A i, j, k \in 1..3 :
        C7_Scenario(i, j, k) =>
            /\ clusters # <<>>
            /\ SameBag(clusters[1], <<input[i], input[j]>>)
            /\ IF min_num_points_per_cluster = 2 \/ max_num_clusters = 1
               THEN Len(clusters) = 1 /\ OnlyInRemainder(input[k])
               ELSE clusters = <<clusters[1], <<input[k]>>>> /\ sp = <<>>

\* The scenario has returned with min_num_points_per_cluster = 2.
C7_Witness ==
    /\ pc = "done"
    /\ min_num_points_per_cluster = 2
    /\ Len(input) = 3
    /\ \E i, j, k \in 1..3 : C7_Scenario(i, j, k) /\ sp = <<input[k]>>

\* The points (r=1, phi=0, z=0), (r=2, phi=0, z=0), (r=3, phi=0, z=0) in
\* any order, min_num_points_per_cluster = 2, max_num_clusters >= 1 and a
\* max_distance that joins neighbours.
C8_Scenario ==
    /\ IsPermutation(input, Pt(10, 0, 0), Pt(20, 0, 0), Pt(30, 0, 0))
    /\ min_num_points_per_cluster = 2
    /\ max_num_clusters >= 1
    /\ max_distance >= 10
    /\ rho_bins >= 1

OneClusterOfAll ==
    /\ Len(clusters) = 1
    /\ Len(clusters[1]) = 3
    /\ SameBag(clusters[1], input)
    /\ sp = <<>>

\* C8 as claimed (collinear through the origin): for every positive rho_bins
\* and theta_bins the scenario returns one cluster of all three points and
\* an empty remainder.
C8_CollinearAsClaimed ==
    (pc = "done" /\ C8_Scenario /\ theta_bins >= 1) => OneClusterOfAll

\* C8 as amended: the same for every positive rho_bins and every
\* theta_bins >= 2; with theta_bins = 1 no cluster holds the three points.
C8_CollinearAmended ==
    (pc = "done" /\ C8_Scenario) =>
        /\ theta_bins >= 2 => OneClusterOfAll
        /\ theta_bins = 1 => \A i \in 1..Len(clusters) : Len(clusters[i]) < 3

\* The scenario has returned with two angle bins and two distance bins.
C8_Witness ==
    /\ pc = "done"
    /\ C8_Scenario
    /\ theta_bins = 2
    /\ rho_bins = 2
    /\ OneClusterOfAll

\* C9 (minimum-size rejection): a single point with
\* min_num_points_per_cluster = 2 gives no cluster and that point as the
\* remainder, whatever max_num_clusters, rho_bins and theta_bins are.
C9_LonePoint ==
    (pc = "done" /\ Len(input) = 1 /\ min_num_points_per_cluster = 2) =>
        (clusters = <<>> /\ sp = input)

\* The lone point was offered as a candidate and turned down.
C9_Witness ==
    /\ pc = "done"
    /\ Len(input) = 1
    /\ min_num_points_per_cluster = 2
    /\ candidates = <<input>>
    /\ sp = input

\* C10 (stopping order): best_cluster runs only while fewer than
\* max_num_clusters clusters are collected and no earlier candidate was
\* smaller than min_num_points_per_cluster; the first smaller candidate is
\* the last one, it is not among the clusters, the clusters are the
\* candidates before it, and its points are in the remainder.
C10_StoppingOrder ==
    /\ pc \in {"best", "ret"} =>
         /\ Len(clusters) < max_num_clusters
         /\ calls = Len(candidates) + 1
         /\ \A i \in 1..Len(candidates) :
              Len(candidates[i]) >= min_num_points_per_cluster
    /\ \A i \in 1..Len(candidates) :
         Len(candidates[i]) < min_num_points_per_cluster =>
             /\ i = Len(candidates)
             /\ pc \in {"rem", "done"}
             /\ calls = Len(candidates)
             /\ clusters = SubSeq(candidates, 1, i - 1)
             /\ pc = "done" =>
                  \A point \in Points :
                      Count(point, candidates[i]) <= Count(point, sp)

\* A candidate with points, but too few, ended the extraction after a
\* cluster had been kept.
C10_Witness ==
    /\ pc = "done"
    /\ clusters # <<>>
    /\ Len(candidates) = Len(clusters) + 1
    /\ candidates[Len(candidates)] # <<>>
    /\ Len(candidates[Len(candidates)]) < min_num_points_per_cluster

HoldsZeroRadius(v) == \E i \in 1..Len(v) : v[i].r = 0

\* C11 (zero-radius guard): when the input holds a point with r = 0, the
\* NaN of its transformed coordinate reaches neither rho_max nor the bins
\* nor the result: rho_max is never NaN, no bin and no cluster ever holds
\* the point (it is rejected or skipped), or the call does not return.
C11_ZeroRadiusGuard ==
    HoldsZeroRadius(input) =>
        /\ ~IsNaN(rho_max)
        /\ \A bin \in DOMAIN accumulator : ~HoldsZeroRadius(accumulator[bin])
        /\ ~HoldsZeroRadius(Flatten(clusters, 1))

\* C12 (best cluster available): the cluster best_cluster returns is at
\* least as large as the largest set of points connected under max_distance
\* that any bin of the accumulator held when best_cluster was entered.
C12_BestAvailable ==
    pc = "ret" =>
        \A bin \in DOMAIN entry_acc :
            Len(largest_cluster(entry_acc[bin], max_distance)) <= Len(prev_best)

\* The points of the call, and the occurrences of point a bin holds (none
\* when the map has no such bin).
InputPoints == { input[i] : i \in 1..Len(input) }

Held(acc, bin, point) == IF bin \in DOMAIN acc THEN Count(point, acc[bin]) ELSE 0

Votes(point, bin) == bin \in get_bins(point, rho_max, rho_bins, theta_bins)

\* C13 (frame of the greedy extractor): when best_cluster returns cluster C,
\* every bin holds of every point what it held on entry, less the
\* occurrences of the point in C when the point votes for the bin; points
\* outside C, those of restored intermediate candidates included, are held
\* as on entry.
C13_ExtractorFrame ==
    pc = "ret" =>
        \A bin \in (DOMAIN entry_acc) \cup (DOMAIN accumulator) :
            \A point \in InputPoints :
                Held(accumulator, bin, point)
                    = Held(entry_acc, bin, point)
                        - (IF Votes(point, bin) THEN Count(point, prev_best) ELSE 0)

\* best_cluster returns after two commits: the first candidate was removed
\* and put back.
C13_Witness ==
    /\ pc = "ret"
    /\ commits >= 2
    /\ \E point \in InputPoints : Count(point, prev_best) = 0

\* C14 (step rule of the greedy extractor): an iteration of best_cluster
\* either commits a candidate (the connectivity filter applied to
\* most_popular) that is strictly larger than the best so far, and then
\* every bin loses the candidate's points and gets back the previous
\* best's, or it meets a candidate that is not larger and ends the loop
\* with the previous best and the accumulator as they were.
C14_StepRule ==
    [][ pc = "best" =>
          \/ /\ pc' = "best"
             /\ Len(prev_best') > Len(prev_best)
             /\ \E popular \in most_popular(accumulator, order) :
                  prev_best' = largest_cluster(popular, max_distance)
             /\ \A bin \in (DOMAIN accumulator) \cup (DOMAIN accumulator') :
                  \A point \in InputPoints :
                      Held(accumulator', bin, point)
                          = Held(accumulator, bin, point)
                              - (IF Votes(point, bin)
                                 THEN Count(point, prev_best') ELSE 0)
                              + (IF Votes(point, bin)
                                 THEN Count(point, prev_best) ELSE 0)
          \/ /\ pc' = "ret"
             /\ \E popular \in most_popular(accumulator, order) :
                  Len(largest_cluster(popular, max_distance)) <= Len(prev_best)
             /\ prev_best' = prev_best
             /\ accumulator' = accumulator ]_vars

\* A candidate was committed over an earlier one, and a later candidate of
\* the same or a smaller size ended the loop.
C14_Witness ==
    /\ pc = "ret"
    /\ commits = 2
    /\ Len(prev_best) >= 2
    /\ \E popular \in most_popular(accumulator, order) : popular # <<>>

\* The copies of point an accumulator holds, and the points it holds in all.
Copies(acc, point) ==
    IF DOMAIN acc = {} THEN 0
    ELSE LET bin == CHOOSE b \in DOMAIN acc :
                        \A other \in DOMAIN acc :
                            Held(acc, other, point) <= Held(acc, b, point)
         IN  Held(acc, bin, point)

RECURSIVE SumCopies(_, _)
SumCopies(acc, points) ==
    IF points = {} THEN 0
    ELSE LET point == CHOOSE p \in points : TRUE
         IN  Copies(acc, point) + SumCopies(acc, points \ {point})

PointsHeld(acc) == SumCopies(acc, InputPoints)

\* C15 (termination of the greedy extractor): every commit makes the best
\* candidate strictly larger, so inside best_cluster the commits number at
\* most the size of the best candidate and at most the points the
\* accumulator held on entry, and best_cluster, once entered, returns.
C15_ExtractorTerminates ==
    /\ [](pc \in {"best", "ret"} =>
            /\ commits <= Len(prev_best)
            /\ Len(prev_best) <= PointsHeld(entry_acc)
            /\ commits <= PointsHeld(entry_acc))
    /\ (pc = "best") ~> (pc = "ret")

\* best_cluster returns after as many commits as its cluster has points,
\* with more points held on entry than it returns.
C15_Witness ==
    /\ pc = "ret"
    /\ commits = 2
    /\ Len(prev_best) = 2
    /\ PointsHeld(entry_acc) > 2

\* The indices of v reached from the indices S by chains of steps of at most
\* max_distance.
RECURSIVE ReachFrom(_, _, _)
ReachFrom(v, S, d) ==
    LET T == S \cup { j \in 1..Len(v) : \E i \in S : Within(v[i], v[j], d) }
    IN  IF T = S THEN S ELSE ReachFrom(v, T, d)

ComponentOf(v, i, d) == ReachFrom(v, {i}, d)

\* out is, as a multiset, one whole connected component of v, and no
\* component of v has more points; out is empty when v is.
IsLargestComponent(v, out, d) ==
    IF v = <<>> THEN out = <<>>
    ELSE \E i \in 1..Len(v) :
           LET comp == ComponentOf(v, i, d)
           IN  /\ Len(out) = Cardinality(comp)
               /\ \A k \in 1..Len(v) :
                    Count(v[k], out) = Cardinality({ n \in comp : v[n] = v[k] })
               /\ \A k \in 1..Len(out) : \E n \in comp : v[n] = out[k]
               /\ \A j \in 1..Len(v) :
                    Cardinality(ComponentOf(v, j, d)) <= Cardinality(comp)

\* C16 (connectivity filter): largest_cluster applied to the points of a
\* bin returns a sub-multiset of them that is one whole connected component
\* of the graph joining points at most max_distance apart, no other
\* component is larger, and an empty collection gives an empty result.
C16_ConnectivityFilter ==
    /\ largest_cluster(<<>>, max_distance) = <<>>
    /\ pc = "best" =>
         \A popular \in most_popular(accumulator, order) :
             IsLargestComponent(popular, largest_cluster(popular, max_distance),
                                max_distance)

\* The filter is applied to a bin of four points and returns three that
\* are linked by a chain, two of them not within max_distance of each
\* other, leaving out a point that is apart.
C16_Witness ==
    /\ pc = "best"
    /\ \E popular \in most_popular(accumulator, order) :
         LET out == largest_cluster(popular, max_distance)
         IN  /\ Len(popular) = 4
             /\ Len(out) = 3
             /\ \E a, b \in 1..3 : ~Within(out[a], out[b], max_distance)

\* C17 (the remainder computation never fails): position(...).unwrap() of
\* the remainder loop never panics: each point of each cluster, counted as
\* often as the clusters hold it, is found in the working copy of the input.
C17_RemainderNeverFails ==
    /\ pc # "panic"
    /\ pc \in {"loop", "best", "ret", "rem"} =>
         \A point \in InputPoints :
             Count(point, Flatten(clusters, 1)) <= Count(point, sp)

\* The remainder loop has removed the points of two clusters, one point of
\* them twice, and left points over.
C17_Witness ==
    /\ pc = "done"
    /\ Len(clusters) = 2
    /\ HasDuplicate(Flatten(clusters, 1))
    /\ sp # <<>>

\* C18 (remove): remove(point) takes exactly one occurrence of the point
\* out of every bin of get_bins(point) that holds it; it creates no bin,
\* leaves the bins that do not hold the point or are not in get_bins(point)
\* as they are, and leaves the occurrences of every other point alone.
C18_RemoveFrame ==
    pc = "best" =>
        \A point \in Points \cup InputPoints :
            LET after == remove(accumulator, point, rho_max, rho_bins, theta_bins)
                bins == get_bins(point, rho_max, rho_bins, theta_bins)
            IN  /\ DOMAIN after = DOMAIN accumulator
                /\ \A bin \in DOMAIN accumulator :
                     IF bin \in bins /\ Held(accumulator, bin, point) >= 1
                     THEN /\ Held(after, bin, point)
                               = Held(accumulator, bin, point) - 1
                          /\ \A other \in InputPoints \ {point} :
                               Held(after, bin, other)
                                   = Held(accumulator, bin, other)
                     ELSE after[bin] = accumulator[bin]

\* After a commit the accumulator has a bin holding a point twice, a bin
\* emptied of its points, and lacks a bin that a point of Points votes for.
C18_Witness ==
    /\ pc = "best"
    /\ commits >= 1
    /\ \E bin \in DOMAIN accumulator : HasDuplicate(accumulator[bin])
    /\ \E bin \in DOMAIN accumulator : accumulator[bin] = <<>>
    /\ \E point \in Points :
         get_bins(point, rho_max, rho_bins, theta_bins) \ DOMAIN accumulator # {}

\* C19 (add): add(point) appends the point once to every bin of
\* get_bins(point), creating the bins the map lacks, and touches no other
\* bin: in each of those bins the point is held once more than before and
\* every other point as before.
C19_AddOnce ==
    pc = "best" =>
        \A point \in Points \cup InputPoints :
            LET after == add(accumulator, point, rho_max, rho_bins, theta_bins)
                bins == get_bins(point, rho_max, rho_bins, theta_bins)
            IN  /\ DOMAIN after = (DOMAIN accumulator) \cup bins
                /\ \A bin \in DOMAIN after :
                     IF bin \in bins
                     THEN /\ Len(after[bin])
                               = (IF bin \in DOMAIN accumulator
                                  THEN Len(accumulator[bin]) ELSE 0) + 1
                          /\ after[bin][Len(after[bin])] = point
                          /\ Held(after, bin, point)
                               = Held(accumulator, bin, point) + 1
                          /\ \A other \in InputPoints \ {point} :
                               Held(after, bin, other)
                                   = Held(accumulator, bin, other)
                     ELSE after[bin] = accumulator[bin]

\* Points were put back by a second commit into an accumulator built with
\* two distance bins, and it lacks a bin that a point of Points votes for.
C19_Witness ==
    /\ pc = "best"
    /\ commits >= 2
    /\ rho_bins = 2
    /\ \E point \in Points :
         get_bins(point, rho_max, rho_bins, theta_bins) \ DOMAIN accumulator # {}

\* C20 (most_popular): most_popular returns the whole collection of a bin
\* that no bin exceeds in number of points, and an empty collection when
\* the accumulator has no bin or all its bins have been emptied.
C20_MostPopular ==
    /\ most_popular(EmptyMap, order) = { <<>> }
    /\ pc = "best" =>
         \A popular \in most_popular(accumulator, order) :
             /\ DOMAIN accumulator # {} =>
                  \E bin \in DOMAIN accumulator : popular = accumulator[bin]
             /\ \A bin \in DOMAIN accumulator :
                  Len(accumulator[bin]) <= Len(popular)
             /\ (\A bin \in DOMAIN accumulator : accumulator[bin] = <<>>) =>
                  popular = <<>>

\* most_popular is asked of an accumulator with a bin emptied by removals
\* and two bins that still hold points, one fuller than the other.
C20_Witness ==
    /\ pc = "best"
    /\ commits >= 1
    /\ \E b1, b2, b3 \in DOMAIN accumulator :
         /\ accumulator[b1] = <<>>
         /\ accumulator[b2] # <<>>
         /\ Len(accumulator[b2]) < Len(accumulator[b3])

\* A value below zero.
Negative(x) == x.m < 0 \/ (x.m = 0 /\ x.e < 0)

\* The distance bins point votes for at angle bin t, rho at sample k, and
\* the distance bin of sample k.
VotedAt(point, t) ==
    { key[2] : key \in { b \in get_bins(point, rho_max, rho_bins, theta_bins) :
                            b[1] = t } }

SampleRho(point, k) == RhoAt(point, k, theta_bins)

SampleBin(point, k) == RhoBin(SampleRho(point, k), rho_max, rho_bins)

Skipped(point, k) ==
    Negative(SampleRho(point, k - 1)) /\ Negative(SampleRho(point, k))

\* C21 (gap-free voting): at every sample step k in 1..theta_bins that is
\* not skipped, a point votes at angle bin k - 1 for exactly the distance
\* bins from the smaller to the larger of the bins of samples k - 1 and k,
\* a negative rho counting as bin 0; so the distance bins voted at one
\* angle bin have no gap and every angle bin voted is in 0..theta_bins - 1.
C21_GapFreeVoting ==
    (pc = "loop" /\ built) =>
        \A point \in InputPoints :
            /\ \A key \in get_bins(point, rho_max, rho_bins, theta_bins) :
                 key[1] \in 0..(theta_bins - 1) /\ key[2] >= 0
            /\ \A k \in 0..theta_bins :
                 Negative(SampleRho(point, k)) => SampleBin(point, k) = 0
            /\ \A k \in 1..theta_bins :
                 /\ ~Skipped(point, k) =>
                      VotedAt(point, k - 1)
                          = Min2(SampleBin(point, k - 1), SampleBin(point, k))
                            ..Max2(SampleBin(point, k - 1), SampleBin(point, k))
                 /\ \A a, b \in VotedAt(point, k - 1) :
                      \A c \in a..b : c \in VotedAt(point, k - 1)

\* The accumulator was built with two angle bins and two distance bins for
\* a point that at one step goes from distance bin 2 to a negative rho,
\* voting for the bins 0, 1 and 2.
C21_Witness ==
    /\ pc = "loop"
    /\ built
    /\ theta_bins = 2
    /\ rho_bins = 2
    /\ \E point \in InputPoints : \E k \in 1..theta_bins :
         /\ SampleBin(point, k - 1) = 2
         /\ Negative(SampleRho(point, k))
         /\ VotedAt(point, k - 1) = {0, 1, 2}

\* C22 (skip rule): a sample step contributes no vote exactly when rho is
\* negative at both of its samples; a step with one negative sample votes,
\* bin 0 included.
C22_SkipRule ==
    (pc = "loop" /\ built) =>
        \A point \in InputPoints : \A k \in 1..theta_bins :
            /\ VotedAt(point, k - 1) = {} <=> Skipped(point, k)
            /\ (~Skipped(point, k)
                  /\ (Negative(SampleRho(point, k - 1))
                       \/ Negative(SampleRho(point, k)))) =>
                 0 \in VotedAt(point, k - 1)

\* The accumulator was built with four angle bins for a point with a step
\* between two negative samples, which votes for nothing, and a step from a
\* negative to a positive sample, which votes for bin 0 and the bin above.
C22_Witness ==
    /\ pc = "loop"
    /\ built
    /\ theta_bins = 4
    /\ \E point \in InputPoints : \E j, k \in 1..theta_bins :
         /\ Skipped(point, j)
         /\ VotedAt(point, j - 1) = {}
         /\ Negative(SampleRho(point, k - 1))
         /\ ~Negative(SampleRho(point, k))
         /\ {0, 1} \subseteq VotedAt(point, k - 1)

\* The candidate best_cluster holds at the moment, and the copies of point
\* that are neither in a returned cluster nor in that candidate.
CurrentBest == IF pc \in {"best", "ret"} THEN prev_best ELSE <<>>

NotExtracted(point) ==
    Count(point, input) - Count(point, Flatten(clusters, 1))
        - Count(point, CurrentBest)

\* Every bin point votes for holds it equally often, no other bin holds
\* it, and it is held at most as often as the input holds it.
AllOrNothing(point) ==
    /\ \A bin \in (DOMAIN accumulator)
                  \cup get_bins(point, rho_max, rho_bins, theta_bins) :
         Held(accumulator, bin, point)
             = (IF Votes(point, bin) THEN Copies(accumulator, point) ELSE 0)
    /\ Copies(accumulator, point) <= Count(point, input)

\* C23 as claimed (accumulator consistency): once the accumulator is built
\* and after each iteration of best_cluster every point is held all or
\* nothing, and the points held are the input points less those of the
\* returned clusters and of the current best candidate.  Stated here for a
\* positive theta_bins only.
C23_ConsistentAsClaimed ==
    (built /\ theta_bins >= 1 /\ pc \in {"loop", "best", "ret"}) =>
        \A point \in InputPoints :
            /\ AllOrNothing(point)
            /\ Copies(accumulator, point) = NotExtracted(point)

\* C23 as amended: the same for the points that vote for at least one bin;
\* a point that votes for no bin is held by no bin and is in no cluster
\* and no candidate.
C23_ConsistentAmended ==
    (built /\ pc \in {"loop", "best", "ret"}) =>
        \A point \in InputPoints :
            /\ AllOrNothing(point)
            /\ IF get_bins(point, rho_max, rho_bins, theta_bins) = {}
               THEN /\ Copies(accumulator, point) = 0
                    /\ NotExtracted(point) = Count(point, input)
               ELSE Copies(accumulator, point) = NotExtracted(point)

\* best_cluster has committed twice, putting the first candidate back,
\* while a point that was never a candidate is still held.
C23_Witness ==
    /\ pc = "best"
    /\ commits >= 2
    /\ \E point \in InputPoints :
         /\ Count(point, prev_best) = 0
         /\ Copies(accumulator, point) >= 1

\* C24 (termination of the orchestrator): cluster_spacepoints returns;
\* best_cluster is called at most max_num_clusters times, and with
\* min_num_points_per_cluster >= 1 on n input points at most
\* n / min_num_points_per_cluster (rounded down) + 1 times.
C24_OrchestratorTerminates ==
    /\ [](/\ calls <= max_num_clusters
          /\ min_num_points_per_cluster >= 1 =>
               calls <= (Len(input) \div min_num_points_per_cluster) + 1)
    /\ <>(pc = "done")

\* The call has returned after as many calls of best_cluster as the input
\* size allows, fewer than max_num_clusters: a cluster was kept and the
\* next candidate was too small.
C24_Witness ==
    /\ pc = "done"
    /\ min_num_points_per_cluster >= 1
    /\ clusters # <<>>
    /\ calls = (Len(input) \div min_num_points_per_cluster) + 1
    /\ calls < max_num_clusters

====
